---- MODULE Spec2Model ----
(***************************************************************************)
(* Model of BacktestEngine.run (src/backtesting/backtest_engine.py) and of *)
(* the Portfolio.from_signals simulation it delegates to.                  *)
(*                                                                         *)
(* Bars are numbered 1..n here; python's bar index i is bar i+1 of the     *)
(* model.  Money and share amounts are exact rationals <<num, den>> with   *)
(* den > 0 in lowest terms; NaN is the pair <<0, 0>>.                       *)
(***************************************************************************)
EXTENDS Integers, Sequences, FiniteSets

\* ---------------------------------------------------------------- bounds
MaxBars == 4
SlipDen == 10

\* ------------------------------------------------------ program constants
Size == 100

OpenPrices == {1, 2}
CloseOffsets == {0, 1}
Capitals == {150, 1000}
Slippages == {0, 1}
RequiredColumns == {"Open", "Close", "signal"}

\* ------------------------------------------------------------- rationals
Abs(x) == IF x < 0 THEN -x ELSE x

RECURSIVE GCD(_, _)
GCD(a, b) == IF b = 0 THEN a ELSE GCD(b, a % b)

Norm(n, d) == LET g == GCD(Abs(n), d) IN <<n \div g, d \div g>>

NaN == <<0, 0>>
IsNaN(r) == r[2] = 0
R(k) == <<k, 1>>
RAdd(a, b) == Norm(a[1] * b[2] + b[1] * a[2], a[2] * b[2])
RSub(a, b) == Norm(a[1] * b[2] - b[1] * a[2], a[2] * b[2])
RMul(a, b) == Norm(a[1] * b[1], a[2] * b[2])
RDiv(a, b) == Norm(a[1] * b[2], a[2] * b[1])
RLe(a, b) == a[1] * b[2] <= b[1] * a[2]
RLt(a, b) == a[1] * b[2] < b[1] * a[2]
RMin(a, b) == IF RLe(a, b) THEN a ELSE b
RMax(a, b) == IF RLe(a, b) THEN b ELSE a

VARIABLES
    df,               \* the caller's frame: columns, Open, Close, signal
    initial_capital,  \* self.initial_capital
    slippage,         \* self.slippage, in units of 1/SlipDen
    pc,               \* position of run: start, simulate, assemble, done, error
    long_entries,     \* shifted entry mask
    long_exits,       \* shifted exit mask
    next_open_prices, \* df['Open'].shift(-1)
    i,                \* bar the simulation is about to process
    cash,             \* simulation state: cash balance
    position,         \* simulation state: shares held
    order_records,    \* filled orders: [idx, side, size, price]
    cash_hist,        \* cash balance after each processed bar
    position_hist,    \* shares held after each processed bar
    results,          \* the returned dictionary entry for the symbol
    strategy          \* a MACrossStrategy object and its caller's arguments

engine_vars == <<df, initial_capital, slippage, pc, long_entries, long_exits,
                 next_open_prices, i, cash, position, order_records,
                 cash_hist, position_hist, results>>

vars == <<engine_vars, strategy>>

NBars == Len(df.signal)
Slip == <<slippage, SlipDen>>
NoResults == [returned |-> FALSE]

\* ------------------------------------------------------------ the inputs
Frames(n) ==
    { [columns |-> RequiredColumns,
       null_open |-> {},
       Open |-> o,
       Close |-> [t \in 1..n |-> o[t] + d],
       signal |-> s] :
         o \in [1..n -> OpenPrices], d \in CloseOffsets,
         s \in [1..n -> {-1, 0, 1}] }

\* The five-bar scenario: Enter-Long on the first bar, Exit-Long on the fourth.
ScenarioSignal == <<1, 0, 0, -1, 0>>

ScenarioFrames ==
    { f \in Frames(Len(ScenarioSignal)) : f.signal = ScenarioSignal }

BadFrames ==
    { [columns |-> c, null_open |-> {}, Open |-> o, Close |-> o,
       signal |-> s] :
         c \in (SUBSET RequiredColumns) \ {RequiredColumns},
         o \in [1..1 -> OpenPrices], s \in [1..1 -> {0, 1}] }

\* Frames with every column present and a null (NaN) in the Open column;
\* null_open holds the bars whose open is null.
NullFrames ==
    UNION { { [f EXCEPT !.null_open = {t}] : f \in Frames(n), t \in 1..n } :
              n \in 1..(MaxBars - 1) }

\* ------------------------------------------------------- python values
\* A python value: None, a string, or a dictionary (a set of <<key, value>>).
NoneV == [type |-> "NoneType", str |-> "", items |-> {}]
Str(x) == [type |-> "str", str |-> x, items |-> {}]
Dict(d) == [type |-> "dict", str |-> "", items |-> d]
Truthy(v) ==
    CASE v.type = "NoneType" -> FALSE
      [] v.type = "str" -> v.str # ""
      [] v.type = "dict" -> v.items # {}
Keys(d) == { kv[1] : kv \in d }
Get(d, k) == (CHOOSE kv \in d : kv[1] = k)[2]
\* dict.update: the entries of p replace those of d with the same key.
Update(d, p) == { kv \in d : kv[1] \notin Keys(p) } \cup p

\* No strategy object exists.
NoStrategy ==
    [pc |-> "none", args |-> <<>>, input |-> <<>>, symbols |-> NoneV,
     start_date |-> NoneV, end_date |-> NoneV, params |-> NoneV,
     data |-> <<>>, signal |-> <<>>]

Init ==
    /\ strategy = NoStrategy
    /\ df \in (UNION { Frames(n) : n \in 0..MaxBars })
                \cup ScenarioFrames \cup BadFrames \cup NullFrames
    /\ initial_capital \in Capitals
    /\ slippage \in Slippages
    /\ pc = "start"
    /\ long_entries = <<>>
    /\ long_exits = <<>>
    /\ next_open_prices = <<>>
    /\ i = 1
    /\ cash = R(0)
    /\ position = R(0)
    /\ order_records = <<>>
    /\ cash_hist = <<>>
    /\ position_hist = <<>>
    /\ results = NoResults

\* ------------------------------------------------- run: validation, shift
\* df.empty or a required column is missing: run raises ValueError.
InvalidInput == NBars = 0 \/ ~(RequiredColumns \subseteq df.columns)

RunRaise ==
    /\ pc = "start"
    /\ InvalidInput
    /\ pc' = "error"
    /\ UNCHANGED <<df, initial_capital, slippage, long_entries, long_exits,
                   next_open_prices, i, cash, position, order_records,
                   cash_hist, position_hist, results,
                   strategy>>

\* The mask without the one-bar shift: a signal acts on its own bar.
UnshiftedMask(v) == [t \in 1..NBars |-> df.signal[t] = v]

\* (df['signal'] == v).shift(1, fill_value=False)
ShiftedMask(v) ==
    [t \in 1..NBars |-> IF t = 1 THEN FALSE ELSE df.signal[t - 1] = v]

\* df['Open'].shift(-1): the last row has no next open and holds NaN, and so
\* does a row whose next open is null.
ShiftedOpen ==
    [t \in 1..NBars |->
        IF t = NBars \/ (t + 1) \in df.null_open
        THEN NaN
        ELSE R(df.Open[t + 1])]

RunPrepare ==
    /\ pc = "start"
    /\ ~InvalidInput
    /\ long_entries' = ShiftedMask(1)
    /\ long_exits' = ShiftedMask(-1)
    /\ next_open_prices' = ShiftedOpen
    /\ cash' = R(initial_capital)
    /\ pc' = "simulate"
    /\ UNCHANGED <<df, initial_capital, slippage, i, position, order_records,
                   cash_hist, position_hist, results,
                   strategy>>

\* ------------------------------------------- Portfolio.from_signals: a bar
\* Signals to an order size with accumulation on: every entry buys again.
SignalsToSizeAccumulate(position_now, is_long_entry, is_long_exit) ==
    IF is_long_entry THEN R(Size)
    ELSE IF is_long_exit /\ RLt(R(0), position_now)
    THEN RSub(R(0), position_now)
    ELSE R(0)

\* Signals to an order size (accumulation off, long signals only): an entry
\* opens a position only when flat, an exit closes the whole position.
SignalsToSize(position_now, is_long_entry, is_long_exit) ==
    IF RLt(R(0), position_now)
    THEN IF is_long_exit THEN RSub(R(0), position_now) ELSE R(0)
    ELSE IF is_long_entry THEN R(Size) ELSE R(0)

NotFilled(c, p, why) ==
    [cash |-> c, position |-> p, filled |-> FALSE, status |-> why,
     side |-> "None", size |-> R(0), price |-> NaN]

\* A buy that never looks at the cash it has: the full size is always bought.
BuyNbNoCashLimit(c, p, size, price) ==
    LET adj_price == RMul(price, RAdd(R(1), Slip))
    IN  [cash |-> RSub(c, RMul(size, adj_price)),
         position |-> RAdd(p, size),
         filled |-> TRUE, status |-> "Filled", side |-> "Buy",
         size |-> size, price |-> adj_price]

\* A buy of `size` at `price`: the price is raised by the slippage, no fees;
\* with too little cash the order is cut down to what the cash buys.
BuyNb(c, p, size, price) ==
    LET adj_price == RMul(price, RAdd(R(1), Slip))
        req_cash == RMul(size, adj_price)
        final_size == IF RLe(req_cash, c) THEN size ELSE RDiv(c, adj_price)
        final_req_cash == IF RLe(req_cash, c) THEN req_cash ELSE c
    IN  IF c = R(0)
        THEN NotFilled(c, p, "NoCashLong")
        ELSE [cash |-> RSub(c, final_req_cash),
              position |-> RAdd(p, final_size),
              filled |-> TRUE, status |-> "Filled", side |-> "Buy",
              size |-> final_size, price |-> adj_price]

\* A long-only sell of `size` at `price`: at most the position is sold, the
\* price is lowered by the slippage, no fees.
SellNb(c, p, size, price) ==
    LET adj_price == RMul(price, RSub(R(1), Slip))
        size_limit == RMin(p, size)
    IN  IF size_limit = R(0)
        THEN NotFilled(c, p, "SizeZero")
        ELSE [cash |-> RAdd(c, RMul(size_limit, adj_price)),
              position |-> RSub(p, size_limit),
              filled |-> TRUE, status |-> "Filled", side |-> "Sell",
              size |-> size_limit, price |-> adj_price]

\* An order with a NaN price is ignored.
ExecuteOrder(c, p, order_size, price) ==
    IF IsNaN(price) THEN NotFilled(c, p, "PriceNaN")
    ELSE IF RLt(R(0), order_size) THEN BuyNb(c, p, order_size, price)
    ELSE SellNb(c, p, RSub(R(0), order_size), price)

\* The bar as simulated when an exit also opens a short position: an exit
\* that meets a flat position sells the fixed size it does not hold.
ProcessBarShortOnExit(c, p, t) ==
    IF long_exits[t] /\ p = R(0) /\ ~IsNaN(next_open_prices[t])
    THEN LET adj_price == RMul(next_open_prices[t], RSub(R(1), Slip))
         IN  [cash |-> RAdd(c, RMul(R(Size), adj_price)),
              position |-> RSub(p, R(Size)),
              filled |-> TRUE, status |-> "Filled", side |-> "Sell",
              size |-> R(Size), price |-> adj_price]
    ELSE LET order_size == SignalsToSize(p, long_entries[t], long_exits[t])
         IN  IF order_size = R(0) THEN NotFilled(c, p, "NoOrder")
             ELSE ExecuteOrder(c, p, order_size, next_open_prices[t])

\* What bar t does to the simulation state.
ProcessBar(c, p, t) ==
    LET order_size == SignalsToSize(p, long_entries[t], long_exits[t])
    IN  IF order_size = R(0) THEN NotFilled(c, p, "NoOrder")
        ELSE ExecuteOrder(c, p, order_size, next_open_prices[t])

SimulateBar ==
    /\ pc = "simulate"
    /\ i <= NBars
    /\ LET r == ProcessBar(cash, position, i)
       IN  /\ cash' = r.cash
           /\ position' = r.position
           /\ order_records' =
                IF r.filled
                THEN Append(order_records,
                            [idx |-> i, side |-> r.side, size |-> r.size,
                             price |-> r.price])
                ELSE order_records
           /\ cash_hist' = Append(cash_hist, r.cash)
           /\ position_hist' = Append(position_hist, r.position)
    /\ i' = i + 1
    /\ pc' = IF i = NBars THEN "assemble" ELSE "simulate"
    /\ UNCHANGED <<df, initial_capital, slippage, long_entries, long_exits,
                   next_open_prices, results,
                   strategy>>

\* --------------------------------------------- the portfolio's accessors
\* Cash and share flows of the k-th order record.
CashFlow(rec) ==
    IF rec.side = "Buy" THEN RSub(R(0), RMul(rec.size, rec.price))
    ELSE RMul(rec.size, rec.price)

AssetFlow(rec) == IF rec.side = "Buy" THEN rec.size ELSE RSub(R(0), rec.size)

RECURSIVE CashAt(_, _, _)
\* portfolio.cash(): the initial cash plus the cash flows of the first k
\* records that lie at bar t or earlier.
CashAt(recs, k, t) ==
    IF k = 0 THEN R(initial_capital)
    ELSE IF recs[k].idx <= t
         THEN RAdd(CashAt(recs, k - 1, t), CashFlow(recs[k]))
         ELSE CashAt(recs, k - 1, t)

RECURSIVE AssetsAt(_, _, _)
\* portfolio.assets(): the shares held after bar t.
AssetsAt(recs, k, t) ==
    IF k = 0 THEN R(0)
    ELSE IF recs[k].idx <= t
         THEN RAdd(AssetsAt(recs, k - 1, t), AssetFlow(recs[k]))
         ELSE AssetsAt(recs, k - 1, t)

\* The value marked at the bar's open instead of its close.
ValueAtOpen(recs, t) ==
    RAdd(CashAt(recs, Len(recs), t),
         RMul(AssetsAt(recs, Len(recs), t), R(df.Open[t])))

\* portfolio.value() at bar t: cash plus the shares marked at the close.
ValueAt(recs, t) ==
    RAdd(CashAt(recs, Len(recs), t),
         RMul(AssetsAt(recs, Len(recs), t), R(df.Close[t])))

PortfolioValue(recs) == [t \in 1..NBars |-> ValueAt(recs, t)]

RECURSIVE RunningMax(_, _)
RunningMax(value, t) ==
    IF t = 0 THEN R(initial_capital)
    ELSE RMax(RunningMax(value, t - 1), value[t])

RECURSIVE MinDrawdown(_, _)
\* portfolio.max_drawdown(): the lowest value / running peak - 1, at most 0.
MinDrawdown(value, t) ==
    IF t = 0 THEN R(0)
    ELSE RMin(MinDrawdown(value, t - 1),
              RSub(RDiv(value[t], RunningMax(value, t)), R(1)))

\* portfolio.total_profit(): the final value less the initial cash.
TotalProfit(value) == RSub(value[NBars], R(initial_capital))

\* ------------------------------------------------------ run: the results
\* The trade_price column: NaN, then the entry rows, then the exit rows.
TradePrice ==
    [t \in 1..NBars |->
        IF long_exits[t]
        THEN IF IsNaN(next_open_prices[t]) THEN NaN
             ELSE RMul(next_open_prices[t], RSub(R(1), Slip))
        ELSE IF long_entries[t]
        THEN IF IsNaN(next_open_prices[t]) THEN NaN
             ELSE RMul(next_open_prices[t], RAdd(R(1), Slip))
        ELSE NaN]

ResultKeys ==
    {"total_return", "max_drawdown", "final_capital", "backtest_data",
     "portfolio"}

RunAssemble ==
    /\ pc = "assemble"
    /\ LET value == PortfolioValue(order_records)
       IN  results' =
             [returned |-> TRUE,
              keys |-> ResultKeys,
              total_return |-> TotalProfit(value),
              max_drawdown |-> RMul(MinDrawdown(value, NBars),
                                    R(initial_capital)),
              final_capital |-> value[NBars],
              trade_price |-> TradePrice,
              Capital |-> value]
    /\ pc' = "done"
    /\ UNCHANGED <<df, initial_capital, slippage, long_entries, long_exits,
                   next_open_prices, i, cash, position, order_records,
                   cash_hist, position_hist,
                   strategy>>

Next == RunRaise \/ RunPrepare \/ SimulateBar \/ RunAssemble

Spec == Init /\ [][Next]_vars

\* ================================================================ claims
Done == pc = "done"
Prepared == pc \in {"simulate", "assemble", "done"}
Processed == 1..Len(cash_hist)
CashBefore(t) == IF t = 1 THEN R(initial_capital) ELSE cash_hist[t - 1]
PositionBefore(t) == IF t = 1 THEN R(0) ELSE position_hist[t - 1]
Records == { order_records[k] : k \in 1..Len(order_records) }
Buys == { rec \in Records : rec.side = "Buy" }
Sells == { rec \in Records : rec.side = "Sell" }
SideSignal(rec) == IF rec.side = "Buy" THEN 1 ELSE -1

\* C1: a non-Flat signal on a bar that is not the last one is turned into an
\* entry or exit on the following bar and on no other; every filled order
\* lies on the bar after the signal that caused it, and none on the first bar.
C1_NextBarExecution ==
    Prepared =>
      /\ ~long_entries[1] /\ ~long_exits[1]
      /\ \A t \in 1..(NBars - 1) :
            /\ long_entries[t + 1] = (df.signal[t] = 1)
            /\ long_exits[t + 1] = (df.signal[t] = -1)
      /\ \A rec \in Records :
            /\ rec.idx >= 2
            /\ df.signal[rec.idx - 1] = SideSignal(rec)

C1_Witness ==
    /\ Done
    /\ \E b \in Buys, x \in Sells :
          /\ df.signal[b.idx] # 1
          /\ df.signal[x.idx] # -1

\* C2: the fill price of the order caused by the signal of bar i is the open
\* of bar i+1, the bar the order is effective on, moved by the slippage; the
\* trade_price column of that bar, where it holds a price, holds the same one.
C2_FillAtNextOpen ==
    (Done /\ df.null_open = {}) =>
      /\ \A rec \in Buys :
            rec.price = RMul(R(df.Open[rec.idx]), RAdd(R(1), Slip))
      /\ \A rec \in Sells :
            rec.price = RMul(R(df.Open[rec.idx]), RSub(R(1), Slip))
      /\ \A t \in 1..NBars :
            ~IsNaN(results.trade_price[t]) =>
              /\ long_entries[t] =>
                   results.trade_price[t] =
                     RMul(R(df.Open[t]), RAdd(R(1), Slip))
              /\ long_exits[t] =>
                   results.trade_price[t] =
                     RMul(R(df.Open[t]), RSub(R(1), Slip))

\* C3: in the five-bar scenario with no slippage and enough capital the
\* entry fills at the second bar's open, the exit at the fifth bar's open,
\* the position ends at 0 and the final equity is
\* C - q * open[second bar] + q * open[fifth bar].
C3_ScenarioRoundTrip ==
    (/\ Done
     /\ df.signal = ScenarioSignal
     /\ slippage = 0
     /\ \A t \in 1..NBars : Size * df.Open[t] <= initial_capital)
    =>
      /\ order_records =
           << [idx |-> 2, side |-> "Buy", size |-> R(Size),
               price |-> R(df.Open[2])],
              [idx |-> 5, side |-> "Sell", size |-> R(Size),
               price |-> R(df.Open[5])] >>
      /\ position = R(0)
      /\ results.final_capital =
           R(initial_capital - Size * df.Open[2] + Size * df.Open[5])

\* A signal of bar t changes the desired position state: an Enter-Long while
\* flat, an Exit-Long while holding (the state the following bar starts in).
ChangesDesired(t) ==
    \/ df.signal[t] = 1 /\ PositionBefore(t + 1) = R(0)
    \/ df.signal[t] = -1 /\ RLt(R(0), PositionBefore(t + 1))

\* C4: a non-Flat signal on the last bar produces no order and the returned
\* result reports it in a diagnostics entry; every non-Flat signal on an
\* earlier bar that changes the desired position has a non-null execution
\* price and is executed on the following bar.
C4_TrailingSignalReported ==
    (Done /\ df.null_open = {}) =>
      /\ \A rec \in Records : rec.idx <= NBars
      /\ df.signal[NBars] # 0 => "diagnostics" \in results.keys
      /\ \A t \in 1..(NBars - 1) :
            (df.signal[t] # 0 /\ ChangesDesired(t)) =>
              /\ ~IsNaN(results.trade_price[t + 1])
              /\ \E rec \in Records : rec.idx = t + 1

\* The signals strictly between bars a and b.
Between(a, b) == { df.signal[k] : k \in (a + 1)..(b - 1) }

\* The bars of the run of signals around bar t that holds no signal v.
RunOf(t, v) ==
    { k \in 1..NBars :
        \A m \in 1..NBars :
          ((k <= m /\ m <= t) \/ (t <= m /\ m <= k)) => df.signal[m] # v }

PositionChangesOnlyOnStateChange ==
    \A t \in Processed :
       position_hist[t] # PositionBefore(t) =>
         \/ long_entries[t] /\ PositionBefore(t) = R(0)
         \/ long_exits[t] /\ RLt(R(0), PositionBefore(t))

AtMostOneSellPerRun ==
    \A x \in Sells, y \in Sells :
       x.idx < y.idx => 1 \in Between(x.idx - 1, y.idx - 1)

C6_EquityIdentity ==
    Done =>
      /\ DOMAIN results.Capital = 1..NBars
      /\ \A t \in 1..NBars :
            /\ results.Capital[t] =
                 RAdd(cash_hist[t], RMul(position_hist[t], R(df.Close[t])))
            /\ (\A rec \in Records : rec.idx > t) =>
                 results.Capital[t] = R(initial_capital)

C6_Witness ==
    /\ Done
    /\ \E t \in 1..NBars :
          /\ RLt(R(0), position_hist[t])
          /\ df.Close[t] # df.Open[t]
          /\ \A rec \in Records : rec.idx # t
    /\ \E t \in 1..NBars, rec \in Records :
          rec.idx = t /\ df.Close[t] # df.Open[t]

\* C7: the cash balance is never negative, whatever the signals, the prices
\* and the initial capital.
C7_CashNonNegative ==
    /\ RLe(R(0), cash)
    /\ \A t \in Processed : RLe(R(0), cash_hist[t])

C7_Witness ==
    \E t \in Processed :
       /\ \E b \in Buys : b.idx = t /\ RLt(CashBefore(t), RMul(R(Size), b.price))
       /\ cash_hist[t] = R(0)

\* A buy of the full size is attempted on bar t and costs more than the cash.
UnaffordableBuy(t) ==
    /\ long_entries[t]
    /\ PositionBefore(t) = R(0)
    /\ ~IsNaN(next_open_prices[t])
    /\ RLt(CashBefore(t),
           RMul(R(Size), RMul(next_open_prices[t], RAdd(R(1), Slip))))

\* C8: a buy whose full cost exceeds the cash is rejected as a whole, cash
\* and position stay as they were, and the result's diagnostics record it.
C8_InsufficientCashRejected ==
    /\ \A t \in Processed :
          UnaffordableBuy(t) =>
            /\ cash_hist[t] = CashBefore(t)
            /\ position_hist[t] = PositionBefore(t)
    /\ (Done /\ \E t \in 1..NBars : UnaffordableBuy(t)) =>
          "diagnostics" \in results.keys

\* The commission rate the engine is said to default to: 0.001.
DefaultCommission == <<1, 1000>>

\* C9: with the default commission rate 0.001 an accepted buy of q at p
\* lowers the cash by p*q*(1+rate) and raises the position by q; an accepted
\* sell raises the cash by p*q*(1-rate) and lowers the position by q.
C9_CommissionBookkeeping ==
    \A rec \in Records :
       /\ rec.side = "Buy" =>
            /\ cash_hist[rec.idx] =
                 RSub(CashBefore(rec.idx),
                      RMul(RMul(rec.price, rec.size),
                           RAdd(R(1), DefaultCommission)))
            /\ position_hist[rec.idx] =
                 RAdd(PositionBefore(rec.idx), rec.size)
       /\ rec.side = "Sell" =>
            /\ cash_hist[rec.idx] =
                 RAdd(CashBefore(rec.idx),
                      RMul(RMul(rec.price, rec.size),
                           RSub(R(1), DefaultCommission)))
            /\ position_hist[rec.idx] =
                 RSub(PositionBefore(rec.idx), rec.size)

\* C11: an input with a null price, an empty input and an input without a
\* required column are all rejected before the simulation: no mask is built,
\* no bar is processed, no order is created and no result is returned.
C11_ValidationPrecedesSimulation ==
    (df.null_open # {} \/ InvalidInput) =>
      /\ pc \in {"start", "error"}
      /\ long_entries = <<>>
      /\ cash_hist = <<>>
      /\ order_records = <<>>
      /\ ~results.returned

\* The drawdown fraction of an equity curve: the lowest of
\* equity[t] / max(equity[1..t]) - 1 over its bars.
RECURSIVE PeakOf(_, _)
PeakOf(equity, t) ==
    IF t = 1 THEN equity[1] ELSE RMax(PeakOf(equity, t - 1), equity[t])

DrawdownAt(equity, t) == RSub(RDiv(equity[t], PeakOf(equity, t)), R(1))

LowestDrawdown(equity) ==
    CHOOSE d \in { DrawdownAt(equity, t) : t \in 1..NBars } :
       \A t \in 1..NBars : RLe(d, DrawdownAt(equity, t))

\* C12: the reported max_drawdown is the lowest drawdown fraction of the
\* Capital column, lies between -1 and 0, and is 0 when the equity never
\* falls below its running peak.
C12_MaxDrawdownFraction ==
    Done =>
      /\ results.max_drawdown = LowestDrawdown(results.Capital)
      /\ RLe(results.max_drawdown, R(0))
      /\ RLe(R(-1), results.max_drawdown)
      /\ (\A t \in 1..NBars :
             results.Capital[t] = PeakOf(results.Capital, t)) =>
           results.max_drawdown = R(0)

\* C13: the reported total_return is equity[last] / equity[first] - 1 and
\* final_capital is equity[last].
C13_TotalReturnRelative ==
    Done =>
      /\ results.total_return =
           RSub(RDiv(results.Capital[NBars], results.Capital[1]), R(1))
      /\ results.final_capital = results.Capital[NBars]

\* C14: the position is never negative; a sell never sells more than is
\* held; an exit that meets a flat position fills nothing and leaves cash
\* and position as they were.
C14_LongOnly ==
    /\ RLe(R(0), position)
    /\ \A t \in Processed :
          /\ RLe(R(0), position_hist[t])
          /\ (long_exits[t] /\ PositionBefore(t) = R(0)) =>
                /\ cash_hist[t] = CashBefore(t)
                /\ position_hist[t] = R(0)
                /\ \A rec \in Records : rec.idx # t
    /\ \A rec \in Sells : RLe(rec.size, PositionBefore(rec.idx))

C14_Witness ==
    /\ Done
    /\ \E t \in 1..NBars :
          /\ long_exits[t]
          /\ PositionBefore(t) = R(0)
    /\ \E rec \in Sells : RLt(rec.size, R(Size))

\* ======================================================= MACrossStrategy
MaxData == 3
StartDates == {Str("2024-05-11")}
EndDates == {NoneV, Str("2025-05-11")}
ParamsArgs ==
    {NoneV, Dict({}), Dict({<<"fast_period", 2>>}),
     Dict({<<"fast_period", 1>>, <<"slow_period", 2>>}),
     Dict({<<"window", 20>>})}
ClosePrices == {1, 2, 3}
DefaultParams == {<<"fast_period", 5>>, <<"slow_period", 20>>}

\* The engine is idle while a strategy is exercised.
EngineIdle ==
    /\ df = [columns |-> RequiredColumns, null_open |-> {}, Open |-> <<>>,
             Close |-> <<>>, signal |-> <<>>]
    /\ initial_capital \in Capitals
    /\ slippage = 0
    /\ pc = "start"
    /\ long_entries = <<>>
    /\ long_exits = <<>>
    /\ next_open_prices = <<>>
    /\ i = 1
    /\ cash = R(0)
    /\ position = R(0)
    /\ order_records = <<>>
    /\ cash_hist = <<>>
    /\ position_hist = <<>>
    /\ results = NoResults

InitStrategy ==
    /\ EngineIdle
    /\ \E sd \in StartDates, ed \in EndDates, pa \in ParamsArgs,
          n \in 0..MaxData :
          \E close \in [1..n -> ClosePrices] :
             strategy = [NoStrategy EXCEPT
                           !.pc = "new",
                           !.args = [start_date |-> sd, end_date |-> ed,
                                     params |-> pa],
                           !.input = close]

\* BaseStrategy.__init__(self, symbols, start_date, end_date, params): the
\* attributes it sets; "now" stands for today's date.
BaseInit(symbols, start_date, end_date, params) ==
    [symbols |-> symbols,
     start_date |-> start_date,
     end_date |-> IF Truthy(end_date) THEN end_date ELSE Str("now"),
     params |-> IF Truthy(params) THEN params ELSE Dict({})]

\* MACrossStrategy.__init__(start_date, end_date, params): the defaults
\* updated by params, then super().__init__ with three positional arguments,
\* which land in symbols, start_date and end_date; params keeps its default.
MACrossInit(start_date, end_date, params) ==
    LET default_params ==
          IF Truthy(params) THEN Update(DefaultParams, params.items)
          ELSE DefaultParams
    IN  BaseInit(start_date, end_date, Dict(default_params), NoneV)

StrategyConstruct ==
    /\ strategy.pc = "new"
    /\ LET a == strategy.args
           o == MACrossInit(a.start_date, a.end_date, a.params)
       IN  strategy' = [strategy EXCEPT
                          !.pc = "constructed",
                          !.symbols = o.symbols,
                          !.start_date = o.start_date,
                          !.end_date = o.end_date,
                          !.params = o.params]
    /\ UNCHANGED engine_vars

StrategySetData ==
    /\ strategy.pc = "constructed"
    /\ strategy' = [strategy EXCEPT !.pc = "ready", !.data = strategy.input]
    /\ UNCHANGED engine_vars

RECURSIVE SumClose(_, _, _)
SumClose(close, lo, hi) ==
    IF lo > hi THEN 0 ELSE close[hi] + SumClose(close, lo, hi - 1)

\* df['Close'].rolling(window=w).mean() at bar t: NaN on the first w-1 bars.
RollingMean(close, w, t) ==
    IF t < w THEN NaN ELSE Norm(SumClose(close, t - w + 1, t), w)

\* The signal column: 1 where the fast mean is above the slow one, -1 where
\* it is below, 0 elsewhere (a comparison with NaN is false).
MACrossSignal(close, fast, slow) ==
    [t \in 1..Len(close) |->
        LET f == RollingMean(close, fast, t)
            sl == RollingMean(close, slow, t)
        IN  IF IsNaN(f) \/ IsNaN(sl) THEN 0
            ELSE IF RLt(f, sl) THEN -1
            ELSE IF RLt(sl, f) THEN 1
            ELSE 0]

\* generate_signals: self.params["fast_period"] and ["slow_period"] are read
\* first; a missing key raises KeyError.
StrategyGenerate ==
    /\ strategy.pc = "ready"
    /\ LET pr == strategy.params.items
       IN  IF {"fast_period", "slow_period"} \subseteq Keys(pr)
           THEN strategy' =
                  [strategy EXCEPT
                     !.pc = "signalled",
                     !.signal = MACrossSignal(strategy.data,
                                              Get(pr, "fast_period"),
                                              Get(pr, "slow_period"))]
           ELSE strategy' = [strategy EXCEPT !.pc = "raised"]
    /\ UNCHANGED engine_vars

NextStrategy == StrategyConstruct \/ StrategySetData \/ StrategyGenerate

SpecStrategy == InitStrategy /\ [][NextStrategy]_vars

\* C15: once constructed, the strategy's parameters are the defaults 5 and
\* 20 overridden by the caller's params, its start_date and end_date are the
\* caller's (today for no end date), and generate_signals after set_data
\* reads the periods from them and returns a signal in {1, 0, -1} per bar.
C15_StrategyParameters ==
    strategy.pc \in {"constructed", "ready", "signalled", "raised"} =>
      LET a == strategy.args
      IN  /\ strategy.params =
               Dict(IF Truthy(a.params)
                    THEN Update(DefaultParams, a.params.items)
                    ELSE DefaultParams)
          /\ strategy.start_date = a.start_date
          /\ strategy.end_date =
               (IF Truthy(a.end_date) THEN a.end_date ELSE Str("now"))
          /\ strategy.pc # "raised"
          /\ strategy.pc = "signalled" =>
               /\ Len(strategy.signal) = Len(strategy.data)
               /\ \A t \in 1..Len(strategy.signal) :
                     strategy.signal[t] \in {-1, 0, 1}

====
